---- MODULE Spec2Model ----
(***************************************************************************)
(* Model of the batch engine of scraper-etico: src/src/batch_processor.py  *)
(* (BatchProcessor, BatchJobState, BatchResult) and the part of            *)
(* src/src/scraper_etico.py it drives (ScraperEtico.get and its own rate   *)
(* limiter).                                                               *)
(*                                                                         *)
(* Spec        the batch runner: process_batch, its completion loop, the   *)
(*             state store (save_job_state / load_job_state) and           *)
(*             resume_batch_job.                                           *)
(* SpecTask    one call of _process_single_url over every answer its       *)
(*             collaborators can give.                                     *)
(* SpecWorkers the worker threads inside _apply_domain_rate_limit and      *)
(*             ScraperEtico.get, with a discrete clock.                    *)
(* SpecScenario the batch runner on three different URLs with interval 1, *)
(*             interrupted and resumed.                                    *)
(* SpecPolicy  one call of _process_single_url on a site, the robots       *)
(*             check and its cache as ScraperEtico.can_fetch makes them.   *)
(* SpecStore   the state directory: default job ids, list_job_states and   *)
(*             cleanup_old_states, with a clock of half seconds.           *)
(* SpecCache   the robots cache of one scraper under can_fetch,            *)
(*             clear_cache and set_user_agent.                             *)
(* SpecLocks   the worker threads through _get_domain_lock and the domain  *)
(*             locks, under fair scheduling.                               *)
(***************************************************************************)
EXTENDS Integers, Sequences, FiniteSets, TLC

(***************************************************************************)
(* Bounds of the model.                                                    *)
(***************************************************************************)
MaxUrls == 2

MaxCalls == 3

NumWorkers == 2

MaxTime == 4

(***************************************************************************)
(* Optional values: None is the empty sequence, Some(v) a one-element one. *)
(***************************************************************************)
None == << >>

Some(v) == << v >>

IsNone(o) == o = << >>

Range(s) == { s[i] : i \in DOMAIN s }

SeqsUpTo(S, n) == UNION { [1..k -> S] : k \in 0..n }

(***************************************************************************)
(* Inputs.                                                                 *)
(***************************************************************************)
Urls == { "a", "b" }

UrlLists == SeqsUpTo(Urls, MaxUrls)

ExcTypes == { "ValueError", "ConnectionError" }

DefaultResumeInterval == 10

Intervals == { 1, 2 }

ResumeIntervals == { 1, DefaultResumeInterval }

WorkerCounts == { -1, 0, 1, 2 }

\* ScraperEtico.default_delay, in ticks of the clock
DefaultDelay == 2

CustomDelays == { None, Some(1), Some(3) }

\* "custom_delay or self.scraper.default_delay" (batch_processor.py lines 214
\* and 345): None and 0 are both falsy
or_default(custom_delay) ==
    IF IsNone(custom_delay) THEN DefaultDelay
    ELSE IF custom_delay[1] = 0 THEN DefaultDelay
    ELSE custom_delay[1]

\* "custom_delay if custom_delay is not None else self.default_delay"
\* (scraper_etico.py line 152)
if_not_none(custom_delay) ==
    IF IsNone(custom_delay) THEN DefaultDelay ELSE custom_delay[1]

(***************************************************************************)
(* BatchResult and _process_single_url.                                    *)
(* env holds the answers of the collaborators for one task:                *)
(*   crawl   "exc" | "none" | "short" | "delay"                            *)
(*                                      scraper.get_crawl_delay: it raises,*)
(*                                      returns None, or returns a delay   *)
(*                                      of 1 tick or of 3 ticks            *)
(*   limiter "exc" | "ok"               _apply_domain_rate_limit           *)
(*   get     "exc" | "none" | "response" scraper.get                       *)
(*   can     "exc" | "true" | "false"   scraper.can_fetch after a None     *)
(*   analyze "exc" | "none" | "report"  analyzer.analyze_url               *)
(*   ctor    "exc" | "ok"               BatchResult(url), whose            *)
(*                                      __post_init__ parses the URL       *)
(*   exc     the type name of the exception that is raised, if one is      *)
(***************************************************************************)
BatchResult(url) ==
    [ url |-> url, success |-> FALSE, status_code |-> None,
      response_size |-> None, response_time |-> None,
      robots_allowed |-> None, crawl_delay |-> None,
      robots_analysis |-> None, error_type |-> None,
      error_message |-> None ]

Envs ==
    [ crawl : { "exc", "none", "short", "delay" }, limiter : { "exc", "ok" },
      get : { "exc", "none", "response" }, can : { "exc", "true", "false" },
      analyze : { "exc", "none", "report" }, ctor : { "exc", "ok" },
      exc : ExcTypes ]

\* lines 302-305: the except branch of the task
task_except(r, env) ==
    [ r EXCEPT !.error_type = Some(env.exc),
               !.error_message = Some("str(e)") ]

\* lines 249-255: the crawl-delay lookup is made only without a fixed delay
LooksUpCrawlDelay(analyze_robots, custom_delay) ==
    IsNone(custom_delay) /\ analyze_robots

\* what scraper.get_crawl_delay returns when it does not raise
crawl_delay_value(env) ==
    IF env.crawl = "short" THEN Some(1)
    ELSE IF env.crawl = "delay" THEN Some(3)
    ELSE None

\* lines 249-254
effective_delay(analyze_robots, custom_delay, env) ==
    IF /\ LooksUpCrawlDelay(analyze_robots, custom_delay)
       /\ ~ IsNone(crawl_delay_value(env))
    THEN crawl_delay_value(env)
    ELSE custom_delay

\* lines 253-255
task_lookup(r, analyze_robots, custom_delay, env) ==
    IF /\ LooksUpCrawlDelay(analyze_robots, custom_delay)
       /\ ~ IsNone(crawl_delay_value(env))
    THEN [ r EXCEPT !.crawl_delay = crawl_delay_value(env) ]
    ELSE r

\* lines 257 and 214: the delay _apply_domain_rate_limit works with
limiter_delay(analyze_robots, custom_delay, env) ==
    or_default(effective_delay(analyze_robots, custom_delay, env))

\* line 264: response_time is set as soon as scraper.get has returned
task_timed(r) == [ r EXCEPT !.response_time = Some(1) ]

\* lines 266-288: the outcome of scraper.get; robots_allowed holds "true" or
\* "false"
task_outcome(r, env) ==
    IF env.get = "response"
    THEN [ r EXCEPT !.success = TRUE,
                    !.status_code = Some(200),
                    !.response_size = Some(5),
                    !.robots_allowed = Some("true") ]
    ELSE IF env.can = "false"
    THEN [ r EXCEPT !.robots_allowed = Some("false"),
                    !.error_type = Some("robots_disallowed"),
                    !.error_message = Some("Access disallowed by robots.txt") ]
    ELSE [ r EXCEPT !.robots_allowed = Some("true"),
                    !.error_type = Some("request_failed"),
                    !.error_message = Some("HTTP request failed") ]

\* an enrichment without its own try block: the exception of analyze_url
\* reaches the except branch of the task
task_enrich_unguarded(r, analyze_robots, env) ==
    IF analyze_robots /\ env.analyze = "exc" THEN task_except(r, env)
    ELSE IF analyze_robots /\ env.analyze = "report"
    THEN [ r EXCEPT !.robots_analysis = Some("report") ]
    ELSE r

\* lines 291-300: best-effort enrichment
task_enrich(r, analyze_robots, env) ==
    IF analyze_robots /\ env.analyze = "report"
    THEN [ r EXCEPT !.robots_analysis = Some("report") ]
    ELSE r

\* the step of the try block at which env raises: "none" when no call raises
RaisedAt(analyze_robots, custom_delay, env) ==
    IF LooksUpCrawlDelay(analyze_robots, custom_delay) /\ env.crawl = "exc"
    THEN "get_crawl_delay"
    ELSE IF env.limiter = "exc" THEN "rate_limit"
    ELSE IF env.get = "exc" THEN "get"
    ELSE IF env.get = "none" /\ env.can = "exc" THEN "can_fetch"
    ELSE "none"

\* a try block that lets the exception leave the task
task_propagate(r, env) == [ raised |-> TRUE, exc |-> env.exc, result |-> r ]

\* The try block propagates nothing (lines 245-307): every exception of the
\* four calls ends in task_except and the record is returned. Lines 242-243
\* are outside the try block: an exception of BatchResult(url) leaves the task.
task_catch(r, env) ==
    [ raised |-> FALSE, exc |-> "", result |-> task_except(r, env) ]

process_single_url(url, analyze_robots, custom_delay, env) ==
    LET r0 == BatchResult(url)
        r1 == task_lookup(r0, analyze_robots, custom_delay, env)
        at == RaisedAt(analyze_robots, custom_delay, env)
    IN  IF env.ctor = "exc"
        THEN [ raised |-> TRUE, exc |-> env.exc, result |-> r0 ]
        ELSE IF at = "get_crawl_delay" THEN task_catch(r0, env)
        ELSE IF at \in { "rate_limit", "get" } THEN task_catch(r1, env)
        ELSE IF at = "can_fetch" THEN task_catch(task_timed(r1), env)
        ELSE [ raised |-> FALSE, exc |-> "",
               result |-> task_enrich(task_outcome(task_timed(r1), env),
                                      analyze_robots, env) ]

(***************************************************************************)
(* The batch runner.                                                       *)
(***************************************************************************)
VARIABLES
    pc,         \* where the caller's thread is: "idle" (no call made, or a
                \* new process after an interruption), "loop" (inside
                \* process_batch, futures submitted), "merge" (in
                \* resume_batch_job, process_batch has returned), "done"
                \* (the call returned), "raised" (the call raised),
                \* "rejected" (process_batch raised the ValueError of
                \* ThreadPoolExecutor before it submitted a task)
    caller,     \* "batch": process_batch called directly; "resume": by
                \* resume_batch_job
    job_state,  \* the BatchJobState of the running process_batch
    interval,   \* save_state_interval of the running process_batch
    config,     \* analyze_robots and custom_delay of the running
                \* process_batch
    futures,    \* future_to_url: per input position, the state of the task
    yielded,    \* the positions as_completed has yielded
    store,      \* state_dir: job id -> file
    loaded,     \* resume_batch_job: the state load_job_state returned
    ret,        \* the state the last call returned
    calls       \* number of calls made by the caller

batch_vars ==
    << pc, caller, job_state, interval, config, futures, yielded, store,
       loaded, ret, calls >>

\* one call of _process_single_url (SpecTask)
VARIABLES
    task_pc,    \* "none" (not in use), "ready", "returned"
    task_in,    \* the arguments and the collaborators' answers
    task_out    \* what the call returned or raised

task_vars == << task_pc, task_in, task_out >>

\* the worker threads (SpecWorkers)
VARIABLES
    clock,                \* time.time(), in ticks
    w_pc,                 \* per worker: its position in the task
    w_domain,             \* per worker: urlparse(url).netloc of its URL
    w_delay,              \* per worker: effective_delay (line 257)
    w_wake,               \* per worker: the time its time.sleep ends
    rl_gap,               \* per domain: the smallest distance between two
                          \* times stored one after the other at line 223
    send_gap,             \* per domain: the smallest distance between two
                          \* requests sent one after the other
    domain_locks,         \* _domain_locks: domain -> state of its lock
    domain_last_request,  \* BatchProcessor._domain_last_request
    last_request_time     \* ScraperEtico._last_request_time

worker_vars ==
    << clock, w_pc, w_domain, w_delay, w_wake, rl_gap, send_gap,
       domain_locks, domain_last_request, last_request_time >>

\* the state directory seen with its clock (SpecStore)
VARIABLES
    mtimes,     \* per job id: st_mtime of its file
    listed,     \* what the last call of list_job_states returned
    cleaned     \* what the last call of cleanup_old_states returned

dir_vars == << mtimes, listed, cleaned >>

\* one ScraperEtico over a sequence of calls (SpecCache)
VARIABLES
    robots_cache,    \* _robots_cache: per domain "absent" or "parser"
    robots_fetches,  \* per domain: the downloads of robots.txt made so far
    site_rule,       \* per domain: what its robots.txt says about the URL
    checked,         \* the domains can_fetch was called for since the
                     \* cache was last emptied
    cf_last          \* the last call: its name, arguments and answer

scraper_vars ==
    << robots_cache, robots_fetches, site_rule, checked, cf_last >>

\* the lock of the lock map (SpecLocks)
VARIABLES
    global_lock    \* BatchProcessor._lock: None, or Some(w) while worker w
                   \* is inside its with block

lock_vars == << global_lock >>

vars ==
    << batch_vars, task_vars, worker_vars, dir_vars, scraper_vars,
       lock_vars >>

JobId == "job"

ResumeId == "job_resume"

JobIds == { JobId, ResumeId }

\* lines 339-347 with the dataclass defaults of lines 102-117
BatchJobState(job_id, urls, max_workers, cfg) ==
    [ job_id |-> job_id, urls |-> urls, completed_urls |-> {},
      failed_urls |-> {}, results |-> << >>, total_urls |-> Len(urls),
      processed_count |-> 0, max_workers |-> max_workers,
      delay_per_domain |-> or_default(cfg.custom_delay),
      analyze_robots |-> cfg.analyze_robots ]

NoConfig == [ analyze_robots |-> FALSE, custom_delay |-> None ]

NoState == BatchJobState("", << >>, 0, NoConfig)

\* the elements of a set in the order its iteration gives them
SetToSeq(S) ==
    CHOOSE q \in [ 1..Cardinality(S) -> S ] : Range(q) = S

\* line 491, pickle.dump(job_state, f): the bytes hold the fields of the
\* object, a set as the sequence of its elements
pickle_dump(js) ==
    [ js EXCEPT !.completed_urls = SetToSeq(@),
                !.failed_urls = SetToSeq(@) ]

\* line 518, pickle.load(f): the object is built again from the bytes
pickle_load(bytes) ==
    [ bytes EXCEPT !.completed_urls = Range(@),
                   !.failed_urls = Range(@) ]

\* a file of state_dir: kind is "none" (no file), "state" (a whole pickle)
\* or "corrupt" (a file that ends before the end of its pickle; what it
\* holds is not kept, pickle.load gives none of it to the caller)
NoFile == [ kind |-> "none", state |-> pickle_dump(NoState) ]

Corrupt == [ kind |-> "corrupt", state |-> pickle_dump(NoState) ]

File(js) == [ kind |-> "state", state |-> pickle_dump(js) ]

\* remaining_urls without the test of failed_urls
remaining_urls_not_completed(js) ==
    SelectSeq(js.urls, LAMBDA u : u \notin js.completed_urls)

\* lines 126-129
remaining_urls(js) ==
    SelectSeq(js.urls,
              LAMBDA u : u \notin js.completed_urls /\ u \notin js.failed_urls)

\* a test of line 441 that never finds the job finished
nothing_remaining_never(js) == FALSE

\* lines 440-441: "if not remaining_urls"
nothing_remaining(js) == remaining_urls(js) = << >>

\* lines 119-124, in whole percent
completion_percentage(js) ==
    IF js.total_urls = 0 THEN 0
    ELSE (js.processed_count * 100) \div js.total_urls

(***************************************************************************)
(* save_job_state (lines 487-498) with outcome out:                        *)
(*   "ok"         the file holds the pickled state                         *)
(*   "open_fails" open() raised: the directory is unchanged                *)
(*   "dump_fails" pickle.dump raised after open() truncated the file       *)
(* Every failure is logged and raised again (line 498).                    *)
(***************************************************************************)
SaveOutcomes == { "ok", "open_fails", "dump_fails" }

\* a save that writes only when the job has no file yet
save_keeps_existing(st, js, out) ==
    IF out = "ok" /\ st[js.job_id].kind = "none"
    THEN [ st EXCEPT ![js.job_id] = File(js) ]
    ELSE st

save_job_state(st, js, out) ==
    IF out = "ok" THEN [ st EXCEPT ![js.job_id] = File(js) ]
    ELSE IF out = "dump_fails" THEN [ st EXCEPT ![js.job_id] = Corrupt ]
    ELSE st

SaveRaises(out) == out # "ok"

\* a load that makes up an empty state when the job has no file
load_or_new(st, job_id) ==
    IF st[job_id].kind = "state"
    THEN Some(pickle_load(st[job_id].state))
    ELSE Some(NoState)

\* a load that hands out whatever bytes the file holds
load_unchecked(st, job_id) ==
    IF st[job_id].kind = "none"
    THEN None
    ELSE Some(pickle_load(st[job_id].state))

\* lines 510-525: None when the file is missing or cannot be unpickled
load_job_state(st, job_id) ==
    IF st[job_id].kind = "state"
    THEN Some(pickle_load(st[job_id].state))
    ELSE None

(***************************************************************************)
(* The completion loop of process_batch, lines 372-403.                    *)
(***************************************************************************)
\* lines 376-383
record_result(js, url, result) ==
    LET js1 == [ js EXCEPT !.results = Append(@, result) ]
        js2 == IF result.success
               THEN [ js1 EXCEPT !.completed_urls = @ \cup { url } ]
               ELSE [ js1 EXCEPT !.failed_urls = @ \cup { url } ]
    IN  [ js2 EXCEPT !.processed_count = @ + 1 ]

\* lines 397-400: the except branch of the loop body
future_except(js, url) ==
    [ js EXCEPT !.failed_urls = @ \cup { url }, !.processed_count = @ + 1 ]

\* line 394
checkpoint_due(js, k) == js.processed_count % k = 0

\* The loop body for one finished future: what it leaves in the job state
\* and in the state directory. out is the outcome of save_job_state, used
\* when a checkpoint is due. An exception of save_job_state is raised inside
\* the try block of line 374, so the except branch of line 397 handles it.
loop_body(js, st, k, url, fut, out) ==
    IF fut.raised
    THEN [ js |-> future_except(js, url), st |-> st ]
    ELSE LET js1 == record_result(js, url, fut.result)
         IN  IF ~ checkpoint_due(js1, k)
             THEN [ js |-> js1, st |-> st ]
             ELSE IF SaveRaises(out)
             THEN [ js |-> future_except(js1, url),
                    st |-> save_job_state(st, js1, out) ]
             ELSE [ js |-> js1, st |-> save_job_state(st, js1, out) ]

(***************************************************************************)
(* The state directory also holds the file of a job that no call of the    *)
(* model names: an earlier process_batch of an empty list under another    *)
(* job id.                                                                 *)
(***************************************************************************)
OtherId == "other"

StoreIds == JobIds \cup { OtherId }

OtherFile == File(BatchJobState(OtherId, << >>, 1, NoConfig))

(***************************************************************************)
(* Actions of the batch runner.                                            *)
(***************************************************************************)
BatchConfigs ==
    { [ analyze_robots |-> TRUE, custom_delay |-> None ],
      [ analyze_robots |-> FALSE, custom_delay |-> Some(1) ] }

\* the answers the collaborators give to the tasks of a batch: a response, a
\* URL robots.txt disallows, a URL that BatchResult cannot parse
BatchEnvs ==
    { e \in Envs :
        /\ e.exc = "ValueError" /\ e.limiter = "ok" /\ e.crawl = "delay"
        /\ e.analyze = "report" /\ e.can = "false"
        /\ \/ e.ctor = "ok" /\ e.get \in { "response", "none" }
           \/ e.ctor = "exc" /\ e.get = "response" }

Pending(url) ==
    [ done |-> FALSE, raised |-> FALSE, exc |-> "",
      result |-> BatchResult(url) ]

Finished(out) ==
    [ done |-> TRUE, raised |-> out.raised, exc |-> out.exc,
      result |-> out.result ]

\* lines 360-369: one future per position of the list, duplicates included
submit_all(urls) == [ i \in DOMAIN urls |-> Pending(urls[i]) ]

\* the locals of process_batch, gone once the call has returned or raised
no_batch ==
    /\ job_state' = NoState
    /\ interval' = 1
    /\ config' = NoConfig
    /\ futures' = << >>
    /\ yielded' = {}

\* lines 338-369: the body of process_batch up to the completion loop
start_batch(job_id, urls, max_workers, cfg, k, who) ==
    /\ job_state' = BatchJobState(job_id, urls, max_workers, cfg)
    /\ interval' = k
    /\ config' = cfg
    /\ futures' = submit_all(urls)
    /\ yielded' = {}
    /\ caller' = who
    /\ pc' = "loop"

\* an executor that takes any number of workers
valid_max_workers_any(n) == TRUE

\* line 360: ThreadPoolExecutor(max_workers=n) raises ValueError when n <= 0
valid_max_workers(n) == n > 0

process_batch(urls, max_workers, cfg, k) ==
    /\ pc = "idle"
    /\ calls = 0
    /\ calls' = calls + 1
    /\ IF valid_max_workers(max_workers)
       THEN start_batch(JobId, urls, max_workers, cfg, k, "batch")
       ELSE /\ pc' = "rejected"
            /\ caller' = "batch"
            /\ no_batch
    /\ UNCHANGED << store, loaded, ret, task_vars, worker_vars, dir_vars,
                    scraper_vars, lock_vars >>

\* ThreadPoolExecutor runs the tasks in submission order on max_workers
\* threads: position i is running when fewer than max_workers unfinished
\* tasks precede it.
Running(i) ==
    /\ i \in DOMAIN futures
    /\ ~ futures[i].done
    /\ Cardinality({ j \in 1..(i - 1) : ~ futures[j].done })
           < job_state.max_workers

\* a worker thread that files its own record in the job state before it
\* returns
TaskFinish_records(i, env) ==
    /\ pc = "loop"
    /\ Running(i)
    /\ LET out == process_single_url(job_state.urls[i],
                                     config.analyze_robots,
                                     config.custom_delay, env)
       IN  /\ futures' = [ futures EXCEPT ![i] = Finished(out) ]
           /\ job_state' =
                  IF out.raised THEN job_state
                  ELSE [ job_state EXCEPT !.results = Append(@, out.result) ]
    /\ UNCHANGED << pc, caller, interval, config, yielded, store,
                    loaded, ret, calls, task_vars, worker_vars, dir_vars,
                    scraper_vars, lock_vars >>

\* a worker thread returns from _process_single_url (lines 242-307)
TaskFinish(i, env) ==
    /\ pc = "loop"
    /\ Running(i)
    /\ futures' =
           [ futures EXCEPT
               ![i] = Finished(process_single_url(job_state.urls[i],
                                                  config.analyze_robots,
                                                  config.custom_delay, env)) ]
    /\ UNCHANGED << pc, caller, job_state, interval, config, yielded, store,
                    loaded, ret, calls, task_vars, worker_vars, dir_vars,
                    scraper_vars, lock_vars >>

\* lines 372-403: as_completed yields a finished future and the loop body runs
Collect(i, out) ==
    /\ pc = "loop"
    /\ i \in DOMAIN futures
    /\ futures[i].done
    /\ i \notin yielded
    /\ LET b == loop_body(job_state, store, interval, job_state.urls[i],
                          futures[i], out)
       IN  /\ job_state' = b.js
           /\ store' = b.st
    /\ yielded' = yielded \cup { i }
    /\ UNCHANGED << pc, caller, interval, config, futures, loaded, ret,
                    calls, task_vars, worker_vars, dir_vars, scraper_vars,
                    lock_vars >>

\* a loop that stops at the first future as_completed yields
loop_ended_at_first == yielded # {} \/ DOMAIN futures = {}

\* line 372 and the end of the with block of line 360: the loop ends when
\* as_completed has yielded every future
loop_ended == yielded = DOMAIN futures

\* a final save that is skipped when nothing was processed
final_checkpoint_if_any(st, js, out) ==
    IF js.processed_count = 0 THEN st ELSE save_job_state(st, js, out)

\* lines 410-411: the final save is made whatever the loop has done
final_checkpoint(st, js, out) == save_job_state(st, js, out)

\* lines 405-422: the loop has ended, the executor has shut down; the final
\* save is outside every try block, so its exception leaves process_batch
final_save(out) ==
    /\ pc = "loop"
    /\ loop_ended
    /\ store' = final_checkpoint(store, job_state, out)
    /\ IF SaveRaises(out)
       THEN /\ pc' = "raised"
            /\ ret' = NoState
            /\ no_batch
       ELSE IF caller = "resume"
       THEN /\ pc' = "merge"
            /\ ret' = ret
            /\ UNCHANGED << job_state, interval, config, futures, yielded >>
       ELSE /\ pc' = "done"
            /\ ret' = job_state
            /\ no_batch
    /\ UNCHANGED << caller, loaded, calls, task_vars, worker_vars,
                    dir_vars, scraper_vars, lock_vars >>

\* a merge that puts the records of the resumed run first
merge_results_new_first(orig, rem) ==
    LET m == [ orig EXCEPT
                 !.results = rem.results \o @,
                 !.completed_urls = @ \cup rem.completed_urls,
                 !.failed_urls = @ \cup rem.failed_urls ]
    IN  [ m EXCEPT !.processed_count = Len(m.results) ]

\* lines 466-469
merge_results(orig, rem) ==
    LET m == [ orig EXCEPT
                 !.results = @ \o rem.results,
                 !.completed_urls = @ \cup rem.completed_urls,
                 !.failed_urls = @ \cup rem.failed_urls ]
    IN  [ m EXCEPT !.processed_count = Len(m.results) ]

\* a resume that passes no fixed delay to process_batch
resume_config_no_delay(js) ==
    [ analyze_robots |-> js.analyze_robots, custom_delay |-> None ]

\* lines 449-450: without overrides the saved analyze_robots and the saved
\* delay_per_domain, as custom_delay, go to process_batch
resume_config(js) ==
    [ analyze_robots |-> js.analyze_robots,
      custom_delay |-> Some(js.delay_per_domain) ]

\* a resumed run that keeps the id of the job it resumes
resume_job_id_same(job_id) == job_id

\* line 457: the id of the resumed run, the id of the job followed by
\* "_resume_" and the time of day
resume_job_id(job_id) == ResumeId

\* a resume that returns an empty state when the job has no checkpoint
resume_not_found_returns ==
    /\ pc' = "done"
    /\ ret' = NoState
    /\ loaded' = None
    /\ caller' = "resume"
    /\ no_batch

\* lines 437-438: "if job_state is None: raise ValueError"
resume_not_found ==
    /\ pc' = "raised"
    /\ ret' = NoState
    /\ loaded' = None
    /\ caller' = "resume"
    /\ no_batch

\* lines 435-463: resume_batch_job up to the call of process_batch
resume_batch_job(k) ==
    /\ pc \in { "idle", "done", "raised", "rejected" }
    /\ calls < MaxCalls
    /\ calls' = calls + 1
    /\ LET got == load_job_state(store, JobId)
       IN  IF IsNone(got)
           THEN resume_not_found
           ELSE IF nothing_remaining(got[1])
           THEN /\ pc' = "done"
                /\ ret' = got[1]
                /\ loaded' = got
                /\ caller' = "resume"
                /\ no_batch
           ELSE /\ loaded' = got
                /\ ret' = NoState
                /\ start_batch(resume_job_id(JobId), remaining_urls(got[1]),
                               got[1].max_workers,
                               resume_config(got[1]),
                               k, "resume")
    /\ UNCHANGED << store, task_vars, worker_vars, dir_vars,
                    scraper_vars, lock_vars >>

\* lines 465-475: merge, save, return
resume_merge(out) ==
    /\ pc = "merge"
    /\ LET merged == merge_results(loaded[1], job_state)
       IN  /\ store' = save_job_state(store, merged, out)
           /\ IF SaveRaises(out)
              THEN pc' = "raised" /\ ret' = NoState
              ELSE pc' = "done" /\ ret' = merged
    /\ no_batch
    /\ UNCHANGED << caller, loaded, calls, task_vars, worker_vars,
                    dir_vars, scraper_vars, lock_vars >>

\* the process is interrupted inside process_batch: what is in memory is
\* lost, the state directory stays
Interrupt ==
    /\ pc = "loop"
    /\ pc' = "idle"
    /\ no_batch
    /\ caller' = "batch"
    /\ loaded' = None
    /\ ret' = NoState
    /\ UNCHANGED << store, calls, task_vars, worker_vars, dir_vars,
                    scraper_vars, lock_vars >>

\* a periodic save is the next thing the loop body of future i does
SavesAfter(i) ==
    /\ i \in DOMAIN futures
    /\ futures[i].done
    /\ i \notin yielded
    /\ ~ futures[i].raised
    /\ checkpoint_due(record_result(job_state, job_state.urls[i],
                                    futures[i].result), interval)

\* the process is interrupted inside save_job_state, after open() has
\* truncated the file and before pickle.dump has written all of it (lines
\* 490-491), at a periodic save, at the final save or at the save of
\* resume_batch_job
InterruptInSave ==
    /\ \/ /\ pc = "loop"
          /\ loop_ended \/ \E i \in DOMAIN futures : SavesAfter(i)
          /\ store' = save_job_state(store, job_state, "dump_fails")
       \/ /\ pc = "merge"
          /\ store' = save_job_state(store, loaded[1], "dump_fails")
    /\ pc' = "idle"
    /\ no_batch
    /\ caller' = "batch"
    /\ loaded' = None
    /\ ret' = NoState
    /\ UNCHANGED << calls, task_vars, worker_vars, dir_vars,
                    scraper_vars, lock_vars >>

BatchInit ==
    /\ pc = "idle"
    /\ caller = "batch"
    /\ job_state = NoState
    /\ interval = 1
    /\ config = NoConfig
    /\ futures = << >>
    /\ yielded = {}
    /\ store = [ j \in StoreIds |->
                   IF j = OtherId THEN OtherFile ELSE NoFile ]
    /\ loaded = None
    /\ ret = NoState
    /\ calls = 0

TaskUnused ==
    /\ task_pc = "none"
    /\ task_in = << >>
    /\ task_out = << >>

WorkersUnused ==
    /\ clock = 0
    /\ w_pc = << >>
    /\ w_domain = << >>
    /\ w_delay = << >>
    /\ w_wake = << >>
    /\ rl_gap = << >>
    /\ send_gap = << >>
    /\ domain_locks = << >>
    /\ domain_last_request = << >>
    /\ last_request_time = << >>

DirUnused ==
    /\ mtimes = << >>
    /\ listed = << >>
    /\ cleaned = 0

NoCall ==
    [ op |-> "none", domain |-> "", force_refresh |-> FALSE,
      answer |-> TRUE ]

ScraperUnused ==
    /\ robots_cache = << >>
    /\ robots_fetches = << >>
    /\ site_rule = << >>
    /\ checked = {}
    /\ cf_last = NoCall

LockUnused == global_lock = None

Init ==
    /\ BatchInit
    /\ TaskUnused
    /\ WorkersUnused
    /\ DirUnused
    /\ ScraperUnused
    /\ LockUnused

Next ==
    \/ \E urls \in UrlLists, w \in WorkerCounts, cfg \in BatchConfigs,
          k \in Intervals : process_batch(urls, w, cfg, k)
    \/ \E i \in 1..MaxUrls, env \in BatchEnvs : TaskFinish(i, env)
    \/ \E i \in 1..MaxUrls, out \in SaveOutcomes : Collect(i, out)
    \/ \E out \in SaveOutcomes : final_save(out)
    \/ \E k \in ResumeIntervals : resume_batch_job(k)
    \/ \E out \in SaveOutcomes : resume_merge(out)
    \/ Interrupt
    \/ InterruptInSave

Spec == Init /\ [][Next]_vars

(***************************************************************************)
(* SpecScenario: the batch runner on one list of three different URLs      *)
(* with save_state_interval 1, interrupted and resumed.                    *)
(***************************************************************************)
ScenarioUrls == << "a", "b", "c" >>

ScenarioNext ==
    \/ \E w \in WorkerCounts, cfg \in BatchConfigs :
           process_batch(ScenarioUrls, w, cfg, 1)
    \/ \E i \in DOMAIN ScenarioUrls, env \in BatchEnvs : TaskFinish(i, env)
    \/ \E i \in DOMAIN ScenarioUrls, out \in SaveOutcomes : Collect(i, out)
    \/ \E out \in SaveOutcomes : final_save(out)
    \/ \E k \in ResumeIntervals : resume_batch_job(k)
    \/ \E out \in SaveOutcomes : resume_merge(out)
    \/ Interrupt
    \/ InterruptInSave

SpecScenario == Init /\ [][ScenarioNext]_vars

(***************************************************************************)
(* SpecTask: one call of _process_single_url.                              *)
(***************************************************************************)
TaskInputs ==
    [ url : Urls, analyze_robots : BOOLEAN, custom_delay : CustomDelays,
      env : Envs ]

TaskInit ==
    /\ task_pc = "ready"
    /\ task_in \in TaskInputs
    /\ task_out = Pending(task_in.url)
    /\ BatchInit
    /\ WorkersUnused
    /\ DirUnused
    /\ ScraperUnused
    /\ LockUnused

RunTask ==
    /\ task_pc = "ready"
    /\ task_pc' = "returned"
    /\ task_out' = Finished(process_single_url(task_in.url,
                                               task_in.analyze_robots,
                                               task_in.custom_delay,
                                               task_in.env))
    /\ UNCHANGED << task_in, batch_vars, worker_vars, dir_vars,
                    scraper_vars, lock_vars >>

TaskNext == RunTask

SpecTask == TaskInit /\ [][TaskNext]_vars

(***************************************************************************)
(* SpecPolicy: one call of _process_single_url whose answers of            *)
(* get_crawl_delay, get and can_fetch come from ScraperEtico itself        *)
(* (scraper_etico.py lines 87-118, 163-229, 231-260) on a site:            *)
(*   cached  the parser of the site's robots.txt is in _robots_cache when  *)
(*           the task starts                                               *)
(*   rule    what the parser of robots.txt answers for the URL             *)
(*   fetch   whether the 1st, 2nd and 3rd download of robots.txt the task  *)
(*           makes succeeds                                                *)
(*   request whether the HTTP request succeeds                             *)
(*   crawl   the crawl delay robots.txt declares                           *)
(***************************************************************************)
Sites ==
    [ cached : BOOLEAN, rule : { "allow", "disallow" },
      fetch : [ 1..3 -> { "ok", "fail" } ], request : { "ok", "fail" },
      crawl : { "none", "short", "delay" } ]

\* _robots_cache for the site at the start of the task, and the number of
\* downloads of robots.txt made so far
cache_at_start(site) == [ cached |-> site.cached, used |-> 0 ]

\* a can_fetch that downloads robots.txt at every call and keeps no parser
can_fetch_uncached(c, site) ==
    IF site.fetch[c.used + 1] = "ok"
    THEN [ allowed |-> site.rule = "allow",
           cache |-> [ cached |-> FALSE, used |-> c.used + 1 ] ]
    ELSE [ allowed |-> TRUE,
           cache |-> [ cached |-> FALSE, used |-> c.used + 1 ] ]

\* scraper_etico.py lines 98-118: with no parser in the cache robots.txt is
\* downloaded; a failed download answers True and caches nothing
can_fetch(c, site) ==
    IF c.cached
    THEN [ allowed |-> site.rule = "allow", cache |-> c ]
    ELSE IF site.fetch[c.used + 1] = "ok"
    THEN [ allowed |-> site.rule = "allow",
           cache |-> [ cached |-> TRUE, used |-> c.used + 1 ] ]
    ELSE [ allowed |-> TRUE,
           cache |-> [ cached |-> FALSE, used |-> c.used + 1 ] ]

\* scraper_etico.py lines 244-245: get_crawl_delay calls can_fetch when the
\* cache has no parser; batch_processor.py line 250: it is called only
\* without a fixed delay
cache_after_lookup(site, analyze_robots, custom_delay) ==
    IF LooksUpCrawlDelay(analyze_robots, custom_delay)
           /\ ~ cache_at_start(site).cached
    THEN can_fetch(cache_at_start(site), site).cache
    ELSE cache_at_start(site)

\* scraper_etico.py line 186: the robots check at the start of get
get_check(site, analyze_robots, custom_delay) ==
    can_fetch(cache_after_lookup(site, analyze_robots, custom_delay), site)

\* the answers the task gets from the scraper on this site
scraper_env(site, analyze_robots, custom_delay) ==
    [ crawl |-> IF cache_after_lookup(site, analyze_robots,
                                      custom_delay).cached
                THEN site.crawl ELSE "none",
      limiter |-> "ok",
      get |-> IF /\ get_check(site, analyze_robots, custom_delay).allowed
                 /\ site.request = "ok"
              THEN "response" ELSE "none",
      can |-> IF can_fetch(get_check(site, analyze_robots,
                                     custom_delay).cache, site).allowed
              THEN "true" ELSE "false",
      analyze |-> "none", ctor |-> "ok", exc |-> "ValueError" ]

PolicyInit ==
    /\ task_pc = "ready"
    /\ \E u \in Urls, a \in BOOLEAN, cd \in CustomDelays, site \in Sites :
           task_in = [ url |-> u, analyze_robots |-> a, custom_delay |-> cd,
                       site |-> site, env |-> scraper_env(site, a, cd) ]
    /\ task_out = Pending(task_in.url)
    /\ BatchInit
    /\ WorkersUnused
    /\ DirUnused
    /\ ScraperUnused
    /\ LockUnused

PolicyNext == RunTask

SpecPolicy == PolicyInit /\ [][PolicyNext]_vars

(***************************************************************************)
(* SpecWorkers: the worker threads of one batch, each with one URL, inside *)
(* _apply_domain_rate_limit (batch_processor.py lines 205-223) and then    *)
(* ScraperEtico.get (scraper_etico.py lines 182-229). Any amount of time   *)
(* may pass between two steps of a thread.                                 *)
(***************************************************************************)
Workers == 1..NumWorkers

Domains == { "d1", "d2" }

WorkersInit ==
    /\ clock = 0
    /\ w_pc = [ w \in Workers |-> "start" ]
    /\ w_domain \in [ Workers -> Domains ]
    /\ \E d \in CustomDelays : w_delay = [ w \in Workers |-> d ]
    /\ w_wake = [ w \in Workers |-> 0 ]
    /\ rl_gap = [ d \in Domains |-> None ]
    /\ send_gap = [ d \in Domains |-> None ]
    /\ domain_locks = [ d \in Domains |-> "absent" ]
    /\ domain_last_request = [ d \in Domains |-> None ]
    /\ last_request_time = [ d \in Domains |-> None ]
    /\ BatchInit
    /\ TaskUnused
    /\ DirUnused
    /\ ScraperUnused
    /\ LockUnused

\* a limiter that sleeps the whole delay whenever the delay has not elapsed
sleep_full_delay(last, delay, now) ==
    IF IsNone(last) THEN now
    ELSE IF now - last[1] < delay THEN now + delay
    ELSE now

\* the time at which a limiter that reads last at time now lets the caller
\* go on: now when nothing is recorded or the delay has elapsed, else
\* now + (delay - elapsed)
sleep_until(last, delay, now) ==
    IF IsNone(last) THEN now
    ELSE IF now - last[1] < delay THEN now + (delay - (now - last[1]))
    ELSE now

\* the smallest distance so far, once a time is stored at now after last
new_gap(gap, last, now) ==
    IF IsNone(last) THEN gap
    ELSE IF IsNone(gap) THEN Some(now - last[1])
    ELSE IF now - last[1] < gap[1] THEN Some(now - last[1])
    ELSE gap

\* a lock that never blocks
lock_not_exclusive(d) == TRUE

\* line 216: threading.Lock.acquire blocks while another thread holds the
\* lock; _get_domain_lock (lines 207-210) has created a missing lock
lock_available(d) == domain_locks[d] # "held"

\* lines 205-221: get the lock of the domain, enter the with block, read the
\* last request time of the domain and decide whether to sleep
rl_enter(w) ==
    /\ w_pc[w] = "start"
    /\ lock_available(w_domain[w])
    /\ domain_locks' = [ domain_locks EXCEPT ![w_domain[w]] = "held" ]
    /\ LET until == sleep_until(domain_last_request[w_domain[w]],
                                or_default(w_delay[w]), clock)
       IN  /\ w_wake' = [ w_wake EXCEPT ![w] = until ]
           /\ w_pc' = [ w_pc EXCEPT
                          ![w] = IF until > clock THEN "rl_sleep"
                                 ELSE "rl_write" ]
    /\ UNCHANGED << clock, w_domain, w_delay, rl_gap, send_gap,
                    domain_last_request, last_request_time, batch_vars,
                    task_vars, dir_vars, scraper_vars, lock_vars >>

\* line 221: time.sleep returns once the time has passed
rl_wake(w) ==
    /\ w_pc[w] = "rl_sleep"
    /\ clock >= w_wake[w]
    /\ w_pc' = [ w_pc EXCEPT ![w] = "rl_write" ]
    /\ w_wake' = [ w_wake EXCEPT ![w] = 0 ]
    /\ UNCHANGED << clock, w_domain, w_delay, rl_gap, send_gap, domain_locks,
                    domain_last_request, last_request_time, batch_vars,
                    task_vars, dir_vars, scraper_vars, lock_vars >>

\* a limiter that keeps the lock of the domain after it has stored the
\* time, so that the lock is held during the fetch
rl_write_keeps_lock(w) ==
    /\ w_pc[w] = "rl_write"
    /\ domain_last_request' =
           [ domain_last_request EXCEPT ![w_domain[w]] = Some(clock) ]
    /\ rl_gap' = [ rl_gap EXCEPT
                     ![w_domain[w]] =
                         new_gap(@, domain_last_request[w_domain[w]], clock) ]
    /\ w_pc' = [ w_pc EXCEPT ![w] = "get" ]
    /\ w_wake' = [ w_wake EXCEPT ![w] = 0 ]
    /\ UNCHANGED << clock, w_domain, w_delay, send_gap, last_request_time,
                    domain_locks, batch_vars, task_vars, dir_vars,
                    scraper_vars, lock_vars >>

\* line 223 and the end of the with block: store the time, release the lock
rl_write(w) ==
    /\ w_pc[w] = "rl_write"
    /\ domain_last_request' =
           [ domain_last_request EXCEPT ![w_domain[w]] = Some(clock) ]
    /\ rl_gap' = [ rl_gap EXCEPT
                     ![w_domain[w]] =
                         new_gap(@, domain_last_request[w_domain[w]], clock) ]
    /\ domain_locks' = [ domain_locks EXCEPT ![w_domain[w]] = "free" ]
    /\ w_pc' = [ w_pc EXCEPT ![w] = "get" ]
    /\ w_wake' = [ w_wake EXCEPT ![w] = 0 ]
    /\ UNCHANGED << clock, w_domain, w_delay, send_gap, last_request_time,
                    batch_vars, task_vars, dir_vars, scraper_vars,
                    lock_vars >>

\* a get whose robots check goes through the rate limiter: the check itself
\* waits for the delay of the domain and records the time
get_enter_limiting(w, allowed) ==
    /\ w_pc[w] = "get"
    /\ LET until == sleep_until(last_request_time[w_domain[w]],
                                if_not_none(w_delay[w]), clock)
       IN  IF allowed
           THEN /\ w_wake' = [ w_wake EXCEPT ![w] = until ]
                /\ w_pc' = [ w_pc EXCEPT
                               ![w] = IF until > clock THEN "s_sleep"
                                      ELSE "s_send" ]
                /\ UNCHANGED last_request_time
           ELSE /\ w_pc' = [ w_pc EXCEPT ![w] = "done" ]
                /\ w_wake' = [ w_wake EXCEPT ![w] = until ]
                /\ last_request_time' =
                       [ last_request_time EXCEPT
                           ![w_domain[w]] = Some(clock) ]
    /\ UNCHANGED << clock, w_domain, w_delay, rl_gap, send_gap, domain_locks,
                    domain_last_request, batch_vars, task_vars, dir_vars,
                    scraper_vars, lock_vars >>

\* a get that sends the request whatever the robots check has answered: for
\* a denied URL the request leaves at once and its time is stored
get_enter_sends(w, allowed) ==
    /\ w_pc[w] = "get"
    /\ IF allowed
       THEN LET until == sleep_until(last_request_time[w_domain[w]],
                                     if_not_none(w_delay[w]), clock)
            IN  /\ w_wake' = [ w_wake EXCEPT ![w] = until ]
                /\ w_pc' = [ w_pc EXCEPT
                               ![w] = IF until > clock THEN "s_sleep"
                                      ELSE "s_send" ]
                /\ UNCHANGED << last_request_time, send_gap >>
       ELSE /\ w_pc' = [ w_pc EXCEPT ![w] = "done" ]
            /\ last_request_time' =
                   [ last_request_time EXCEPT ![w_domain[w]] = Some(clock) ]
            /\ send_gap' =
                   [ send_gap EXCEPT
                       ![w_domain[w]] =
                           new_gap(@, last_request_time[w_domain[w]], clock) ]
            /\ UNCHANGED w_wake
    /\ UNCHANGED << clock, w_domain, w_delay, rl_gap, domain_locks,
                    domain_last_request, batch_vars, task_vars, dir_vars,
                    scraper_vars, lock_vars >>

\* scraper_etico.py lines 182-188: the robots check of get; a disallowed URL
\* returns None without a request. Lines 152-159: for an allowed URL
\* _apply_rate_limit reads the last request time, holding no lock.
get_enter(w, allowed) ==
    /\ w_pc[w] = "get"
    /\ IF allowed
       THEN LET until == sleep_until(last_request_time[w_domain[w]],
                                     if_not_none(w_delay[w]), clock)
            IN  /\ w_wake' = [ w_wake EXCEPT ![w] = until ]
                /\ w_pc' = [ w_pc EXCEPT
                               ![w] = IF until > clock THEN "s_sleep"
                                      ELSE "s_send" ]
       ELSE /\ w_pc' = [ w_pc EXCEPT ![w] = "done" ]
            /\ UNCHANGED w_wake
    /\ UNCHANGED << clock, w_domain, w_delay, rl_gap, send_gap, domain_locks,
                    domain_last_request, last_request_time, batch_vars,
                    task_vars, dir_vars, scraper_vars, lock_vars >>

\* scraper_etico.py line 159
s_wake(w) ==
    /\ w_pc[w] = "s_sleep"
    /\ clock >= w_wake[w]
    /\ w_pc' = [ w_pc EXCEPT ![w] = "s_send" ]
    /\ w_wake' = [ w_wake EXCEPT ![w] = 0 ]
    /\ UNCHANGED << clock, w_domain, w_delay, rl_gap, send_gap, domain_locks,
                    domain_last_request, last_request_time, batch_vars,
                    task_vars, dir_vars, scraper_vars, lock_vars >>

\* scraper_etico.py lines 161-204: store the time and send the request; the
\* request is taken to leave at the very time that is stored
s_send(w) ==
    /\ w_pc[w] = "s_send"
    /\ last_request_time' =
           [ last_request_time EXCEPT ![w_domain[w]] = Some(clock) ]
    /\ send_gap' = [ send_gap EXCEPT
                       ![w_domain[w]] =
                           new_gap(@, last_request_time[w_domain[w]], clock) ]
    /\ w_pc' = [ w_pc EXCEPT ![w] = "done" ]
    /\ w_wake' = [ w_wake EXCEPT ![w] = 0 ]
    /\ UNCHANGED << clock, w_domain, w_delay, rl_gap, domain_locks,
                    domain_last_request, batch_vars, task_vars, dir_vars,
                    scraper_vars, lock_vars >>

\* time passes
Tick ==
    /\ clock < MaxTime
    /\ clock' = clock + 1
    /\ UNCHANGED << w_pc, w_domain, w_delay, w_wake, rl_gap, send_gap,
                    domain_locks, domain_last_request, last_request_time,
                    batch_vars, task_vars, dir_vars, scraper_vars,
                    lock_vars >>

WorkersNext ==
    \/ \E w \in Workers : rl_enter(w)
    \/ \E w \in Workers : rl_wake(w)
    \/ \E w \in Workers : rl_write(w)
    \/ \E w \in Workers, allowed \in BOOLEAN : get_enter(w, allowed)
    \/ \E w \in Workers : s_wake(w)
    \/ \E w \in Workers : s_send(w)
    \/ Tick

SpecWorkers == WorkersInit /\ [][WorkersNext]_vars

(***************************************************************************)
(* SpecLocks: the worker threads with the two kinds of lock of             *)
(* BatchProcessor step by step. _get_domain_lock (lines 205-210) takes     *)
(* self._lock, finds or makes the lock of the domain and gives self._lock  *)
(* back; then "with lock:" of line 216 takes the lock of the domain. The   *)
(* threads are scheduled fairly and time goes on while a thread sleeps.    *)
(***************************************************************************)
\* line 207: "with self._lock:" is entered
get_domain_lock_enter(w) ==
    /\ w_pc[w] = "start"
    /\ IsNone(global_lock)
    /\ global_lock' = Some(w)
    /\ w_pc' = [ w_pc EXCEPT ![w] = "map" ]
    /\ UNCHANGED << clock, w_domain, w_delay, w_wake, rl_gap, send_gap,
                    domain_locks, domain_last_request, last_request_time,
                    batch_vars, task_vars, dir_vars, scraper_vars >>

\* lines 208-210: the lock of the domain is made when it is missing, and
\* returned
get_domain_lock_exit(w) ==
    /\ w_pc[w] = "map"
    /\ global_lock = Some(w)
    /\ global_lock' = None
    /\ domain_locks' =
           [ domain_locks EXCEPT
               ![w_domain[w]] = IF @ = "absent" THEN "free" ELSE @ ]
    /\ w_pc' = [ w_pc EXCEPT ![w] = "wait" ]
    /\ UNCHANGED << clock, w_domain, w_delay, w_wake, rl_gap, send_gap,
                    domain_last_request, last_request_time, batch_vars,
                    task_vars, dir_vars, scraper_vars >>

\* one lock for all domains
lock_available_any(d) == \A e \in Domains : domain_locks[e] # "held"

\* line 216: "with lock:" is entered once the lock of the domain is free
domain_lock_available(d) == lock_available(d)

\* lines 216-221: take the lock of the domain, read its last request time
\* and decide whether to sleep
rl_acquire(w) ==
    /\ w_pc[w] = "wait"
    /\ domain_lock_available(w_domain[w])
    /\ domain_locks' = [ domain_locks EXCEPT ![w_domain[w]] = "held" ]
    /\ LET until == sleep_until(domain_last_request[w_domain[w]],
                                or_default(w_delay[w]), clock)
       IN  /\ w_wake' = [ w_wake EXCEPT ![w] = until ]
           /\ w_pc' = [ w_pc EXCEPT
                          ![w] = IF until > clock THEN "rl_sleep"
                                 ELSE "rl_write" ]
    /\ UNCHANGED << clock, w_domain, w_delay, rl_gap, send_gap,
                    domain_last_request, last_request_time, batch_vars,
                    task_vars, dir_vars, scraper_vars, lock_vars >>

\* the workers that sleep
Sleepers ==
    { w \in Workers : w_pc[w] \in { "rl_sleep", "s_sleep" }
                          /\ w_wake[w] > clock }

\* time passes while a worker sleeps; the steps of the workers themselves
\* are taken to need no time
TimePasses ==
    /\ Sleepers # {}
    /\ clock' = clock + 1
    /\ UNCHANGED << w_pc, w_domain, w_delay, w_wake, rl_gap, send_gap,
                    domain_locks, domain_last_request, last_request_time,
                    batch_vars, task_vars, dir_vars, scraper_vars,
                    lock_vars >>

LocksInit == WorkersInit

WorkerStep(w) ==
    \/ get_domain_lock_enter(w)
    \/ get_domain_lock_exit(w)
    \/ rl_acquire(w)
    \/ rl_wake(w)
    \/ rl_write(w)
    \/ \E allowed \in BOOLEAN : get_enter(w, allowed)
    \/ s_wake(w)
    \/ s_send(w)

LocksNext ==
    \/ \E w \in Workers : get_domain_lock_enter(w)
    \/ \E w \in Workers : get_domain_lock_exit(w)
    \/ \E w \in Workers : rl_acquire(w)
    \/ \E w \in Workers : rl_wake(w)
    \/ \E w \in Workers : rl_write(w)
    \/ \E w \in Workers, allowed \in BOOLEAN : get_enter(w, allowed)
    \/ \E w \in Workers : s_wake(w)
    \/ \E w \in Workers : s_send(w)
    \/ TimePasses

\* the scheduler lets every thread that can run go on, and time passes
SpecLocks ==
    /\ LocksInit
    /\ [][LocksNext]_vars
    /\ \A w \in Workers : WF_vars(WorkerStep(w))
    /\ WF_vars(TimePasses)

(***************************************************************************)
(* SpecStore: the state directory over time. The caller makes whole calls  *)
(* of process_batch without a job_id, of cleanup_old_states and of         *)
(* list_job_states while the clock runs. max_age is counted in ticks of    *)
(* the clock.                                                              *)
(***************************************************************************)
\* ticks of the clock in one second: strftime('%Y%m%d_%H%M%S') of line 336
\* drops what is below the second
TicksPerSecond == 2

\* line 336: the id of the 1st, 2nd, ... second of the clock
Stamps == << "batch_000000", "batch_000001", "batch_000002", "batch_000003" >>

DirIds == Range(Stamps)

\* lines 335-336: the id of a call that passes no job_id
default_job_id(now) == Stamps[(now \div TicksPerSecond) + 1]

\* the place of an id in the order of strings
stamp_rank(id) == CHOOSE i \in DOMAIN Stamps : Stamps[i] = id

\* analyze_robots and custom_delay when the caller passes none (lines
\* 314-315)
DefaultConfig == [ analyze_robots |-> TRUE, custom_delay |-> None ]

\* save_state_interval when the caller passes none (line 317)
DefaultSaveInterval == 10

\* lines 372-403 for the tasks from position i on, each future collected as
\* soon as it has finished; no checkpoint fails inside the loop
RECURSIVE batch_loop(_, _, _, _, _)
batch_loop(js, st, i, cfg, env) ==
    IF i > Len(js.urls) THEN [ js |-> js, st |-> st ]
    ELSE LET fut == Finished(process_single_url(js.urls[i],
                                                cfg.analyze_robots,
                                                cfg.custom_delay, env))
             step == loop_body(js, st, DefaultSaveInterval, js.urls[i], fut,
                               "ok")
         IN  batch_loop(step.js, step.st, i + 1, cfg, env)

\* st_mtime of the file of job_id after save_job_state with outcome out
mtime_after_save(mt, job_id, out, now) ==
    IF out = "open_fails" THEN mt ELSE [ mt EXCEPT ![job_id] = now ]

\* lines 334-422: one whole call of process_batch(urls) with max_workers 1
\* and no job_id; out is the outcome of the final save_job_state
process_batch_default_id(urls, cfg, env, out) ==
    /\ calls < MaxCalls
    /\ calls' = calls + 1
    /\ LET id == default_job_id(clock)
           run == batch_loop(BatchJobState(id, urls, 1, cfg), store, 1, cfg,
                             env)
       IN  /\ store' = final_checkpoint(run.st, run.js, out)
           /\ mtimes' = mtime_after_save(mtimes, id, out, clock)
           /\ IF SaveRaises(out)
              THEN pc' = "raised" /\ ret' = NoState
              ELSE pc' = "done" /\ ret' = run.js
    /\ UNCHANGED << caller, job_state, interval, config, futures, yielded,
                    loaded, listed, cleaned, task_vars, worker_vars,
                    scraper_vars, lock_vars >>

\* glob("*.pkl") of lines 535 and 950: the ids that have a file
state_files(st) == { j \in DOMAIN st : st[j].kind # "none" }

\* the ids from the last to the first
sorted_reverse(S) ==
    CHOOSE q \in [ 1..Cardinality(S) -> S ] :
        /\ Range(q) = S
        /\ \A i, j \in DOMAIN q : i < j => stamp_rank(q[i]) > stamp_rank(q[j])

\* line 539: sorted()
sorted(S) ==
    CHOOSE q \in [ 1..Cardinality(S) -> S ] :
        /\ Range(q) = S
        /\ \A i, j \in DOMAIN q : i < j => stamp_rank(q[i]) < stamp_rank(q[j])

\* lines 527-539
list_job_states ==
    /\ listed' = sorted(state_files(store))
    /\ pc' = "listed"
    /\ UNCHANGED << caller, job_state, interval, config, futures, yielded,
                    store, loaded, ret, calls, mtimes, cleaned, task_vars,
                    worker_vars, scraper_vars, lock_vars >>

MaxAges == { 0, 1 }

\* lines 947 and 952-953: the files whose mtime is before the cutoff
older_than(st, mt, max_age, now) ==
    { j \in state_files(st) : mt[j] < now - max_age }

\* lines 937-963
cleanup_old_states(max_age) ==
    LET old == older_than(store, mtimes, max_age, clock)
    IN  /\ store' = [ j \in DOMAIN store |->
                        IF j \in old THEN NoFile ELSE store[j] ]
        /\ mtimes' = [ j \in DOMAIN mtimes |->
                         IF j \in old THEN 0 ELSE mtimes[j] ]
        /\ cleaned' = Cardinality(old)
        /\ pc' = "cleaned"
        /\ UNCHANGED << caller, job_state, interval, config, futures,
                        yielded, loaded, ret, calls, listed, task_vars,
                        worker_vars, scraper_vars, lock_vars >>

StoreInit ==
    /\ pc = "idle"
    /\ caller = "batch"
    /\ job_state = NoState
    /\ interval = 1
    /\ config = NoConfig
    /\ futures = << >>
    /\ yielded = {}
    /\ store = [ j \in DirIds |-> NoFile ]
    /\ loaded = None
    /\ ret = NoState
    /\ calls = 0
    /\ mtimes = [ j \in DirIds |-> 0 ]
    /\ listed = << >>
    /\ cleaned = 0
    /\ TaskUnused
    /\ WorkersUnused
    /\ ScraperUnused
    /\ LockUnused

StoreNext ==
    \/ \E urls \in SeqsUpTo(Urls, 1), env \in BatchEnvs, out \in SaveOutcomes :
           process_batch_default_id(urls, DefaultConfig, env, out)
    \/ \E max_age \in MaxAges : cleanup_old_states(max_age)
    \/ list_job_states
    \/ Tick

SpecStore == StoreInit /\ [][StoreNext]_vars

(***************************************************************************)
(* SpecCache: one ScraperEtico and a sequence of calls of can_fetch,       *)
(* clear_cache and set_user_agent (scraper_etico.py lines 87-142 and       *)
(* 262-278). net is how the download of robots.txt ends when the call      *)
(* makes one: "ok", or "fail" when _fetch_robots_txt returns None.         *)
(***************************************************************************)
NetOutcomes == { "ok", "fail" }

\* scraper_etico.py lines 102-118 with the argument force_refresh: what the
\* call answers, the cache it leaves and whether it downloaded robots.txt
can_fetch_refresh(cache, d, force_refresh, net, rule) ==
    IF cache[d] = "absent" \/ force_refresh
    THEN IF net = "ok"
         THEN [ allowed |-> rule = "allow",
                cache |-> [ cache EXCEPT ![d] = "parser" ],
                fetched |-> TRUE ]
         ELSE [ allowed |-> TRUE, cache |-> cache, fetched |-> TRUE ]
    ELSE [ allowed |-> rule = "allow", cache |-> cache, fetched |-> FALSE ]

\* scraper_etico.py lines 87-118: one call can_fetch(url, force_refresh) for
\* a URL of domain d
CanFetch(d, force_refresh, net) ==
    /\ calls < MaxCalls
    /\ calls' = calls + 1
    /\ LET got == can_fetch_refresh(robots_cache, d, force_refresh, net,
                                    site_rule[d])
       IN  /\ robots_cache' = got.cache
           /\ robots_fetches' =
                  [ robots_fetches EXCEPT
                      ![d] = IF got.fetched THEN @ + 1 ELSE @ ]
           /\ cf_last' = [ op |-> "can_fetch", domain |-> d,
                           force_refresh |-> force_refresh,
                           answer |-> got.allowed ]
    /\ checked' = checked \cup { d }
    /\ UNCHANGED << site_rule, pc, caller, job_state, interval, config,
                    futures, yielded, store, loaded, ret, task_vars,
                    worker_vars, dir_vars, lock_vars >>

\* what emptying the cache leaves of the calls made so far
cache_emptied(op) ==
    /\ robots_cache' = [ d \in DOMAIN robots_cache |-> "absent" ]
    /\ checked' = {}
    /\ cf_last' = [ NoCall EXCEPT !.op = op ]

\* scraper_etico.py lines 262-266: both dictionaries are cleared
clear_cache ==
    /\ calls < MaxCalls
    /\ calls' = calls + 1
    /\ cache_emptied("clear_cache")
    /\ last_request_time' = << >>
    /\ UNCHANGED << robots_fetches, site_rule, pc, caller, job_state,
                    interval, config, futures, yielded, store, loaded, ret,
                    task_vars, clock, w_pc, w_domain, w_delay, w_wake,
                    rl_gap, send_gap, domain_locks, domain_last_request,
                    dir_vars, lock_vars >>

\* scraper_etico.py lines 268-278: the permissions may differ for the new
\* user agent, so the parsers are dropped
set_user_agent ==
    /\ calls < MaxCalls
    /\ calls' = calls + 1
    /\ cache_emptied("set_user_agent")
    /\ UNCHANGED << robots_fetches, site_rule, pc, caller, job_state,
                    interval, config, futures, yielded, store, loaded, ret,
                    task_vars, worker_vars, dir_vars, lock_vars >>

CacheInit ==
    /\ robots_cache = [ d \in Domains |-> "absent" ]
    /\ robots_fetches = [ d \in Domains |-> 0 ]
    /\ site_rule \in [ Domains -> { "allow", "disallow" } ]
    /\ checked = {}
    /\ cf_last = NoCall
    /\ BatchInit
    /\ TaskUnused
    /\ WorkersUnused
    /\ DirUnused
    /\ LockUnused

CacheNext ==
    \/ \E d \in Domains, force_refresh \in BOOLEAN, net \in NetOutcomes :
           CanFetch(d, force_refresh, net)
    \/ clear_cache
    \/ set_user_agent

SpecCache == CacheInit /\ [][CacheNext]_vars

(***************************************************************************)
(* generate_summary_report (lines 695-854). Rates are in whole percent and *)
(* averages are whole numbers. A key the report does not have is None; so  *)
(* is a value that is None in the report.                                  *)
(***************************************************************************)
RECURSIVE Sum(_)
Sum(q) == IF q = << >> THEN 0 ELSE Head(q) + Sum(Tail(q))

\* the values of the field f that are not None, as a list
Values(rs, f) ==
    LET has == SelectSeq(rs, LAMBDA r : ~ IsNone(r[f]))
    IN  [ i \in DOMAIN has |-> has[i][f][1] ]

\* lines 707-711: the report of a state without results
no_results_report(js) ==
    [ job_id |-> js.job_id, message |-> Some("No results to analyze"),
      successful |-> None, failed |-> None, success_rate_percent |-> None,
      completion_percentage |-> None, average_seconds |-> None,
      average_bytes_per_response |-> None, domain_success_rates |-> None,
      error_rate_percent |-> None, crawl_delays |-> None ]

\* lines 733-739: BatchResult.domain (line 89) is the host of the URL, and
\* every URL of the model has its own host
domain_success_rates(results) ==
    [ d \in { results[i].url : i \in DOMAIN results } |->
        LET domain_results == SelectSeq(results, LAMBDA r : r.url = d)
            domain_success == Len(SelectSeq(domain_results,
                                            LAMBDA r : r.success))
        IN  (domain_success * 100) \div Len(domain_results) ]

\* lines 748-771: the summary of the enrichment; the key is missing when
\* analyze_robots is off or no result has a report
crawl_delays_summary(js) ==
    LET robots_results ==
            SelectSeq(js.results, LAMBDA r : ~ IsNone(r.robots_analysis))
        crawl_delays == Values(js.results, "crawl_delay")
    IN  IF ~ js.analyze_robots \/ robots_results = << >> THEN None
        ELSE Some([ count |-> Len(crawl_delays),
                    average |-> IF crawl_delays # << >>
                                THEN Some(Sum(crawl_delays)
                                              \div Len(crawl_delays))
                                ELSE None ])

generate_summary_report(js) ==
    IF js.results = << >> THEN no_results_report(js)
    ELSE
    LET results == js.results
        total_results == Len(results)
        successful_results == SelectSeq(results, LAMBDA r : r.success)
        failed_results == SelectSeq(results, LAMBDA r : ~ r.success)
        success_count == Len(successful_results)
        failure_count == Len(failed_results)
        response_times == Values(successful_results, "response_time")
        response_sizes == Values(successful_results, "response_size")
    IN  [ job_id |-> js.job_id, message |-> None,
          successful |-> Some(success_count),
          failed |-> Some(failure_count),
          success_rate_percent |->
              Some(IF total_results > 0
                   THEN (success_count * 100) \div total_results ELSE 0),
          completion_percentage |-> Some(completion_percentage(js)),
          average_seconds |->
              Some(IF response_times # << >>
                   THEN Sum(response_times) \div Len(response_times) ELSE 0),
          average_bytes_per_response |->
              Some(IF response_sizes # << >>
                   THEN Sum(response_sizes) \div Len(response_sizes) ELSE 0),
          domain_success_rates |-> Some(domain_success_rates(results)),
          error_rate_percent |->
              Some(IF total_results > 0
                   THEN (failure_count * 100) \div total_results ELSE 0),
          crawl_delays |-> crawl_delays_summary(js) ]

(***************************************************************************)
(* Properties of the batch runner, checked under Spec.                     *)
(***************************************************************************)
CountMatchesSets(js) ==
    js.processed_count
        = Cardinality(js.completed_urls) + Cardinality(js.failed_urls)

Snapshots ==
    { load_job_state(store, j)[1] :
        j \in { i \in JobIds : ~ IsNone(load_job_state(store, i)) } }

Covered(js) ==
    /\ Range(js.urls) = js.completed_urls \cup js.failed_urls
    /\ remaining_urls(js) = << >>

\* C1: every state that save_job_state has persisted, and every state that
\* process_batch or resume_batch_job returns, has processed_count equal to
\* the number of completed URLs plus the number of failed URLs.
C1_ProcessedCountIsSetSizes ==
    /\ \A js \in Snapshots : CountMatchesSets(js)
    /\ pc = "done" => CountMatchesSets(ret)
    /\ pc = "merge" => CountMatchesSets(job_state)

\* C2: in every job state, in memory, persisted or returned, no URL is both
\* in completed_urls and in failed_urls.
C2_CompletedFailedDisjoint ==
    \A js \in Snapshots \cup { job_state, ret } :
        js.completed_urls \cap js.failed_urls = {}

\* C5: process_batch returns only when every submitted task has finished,
\* and the state it returns has every input URL in completed_urls or in
\* failed_urls, no remaining URL, and nothing in either set that is not an
\* input URL.
C5_ReturnsAfterAllTasks ==
    [][ (pc = "loop" /\ pc' \in { "done", "merge" })
            => /\ \A i \in DOMAIN futures : futures[i].done
               /\ Covered(job_state)
               /\ pc' = "done" => ret' = job_state
               /\ pc' = "merge" => job_state' = job_state ]_vars

\* C5 witness: a batch of two URLs has returned, one completed, one failed
C5_Witness ==
    /\ pc = "done"
    /\ caller = "batch"
    /\ Len(ret.urls) = 2
    /\ ret.completed_urls # {}
    /\ ret.failed_urls # {}
    /\ Covered(ret)

\* C6: the completion loop appends one Result Record and counts one per
\* finished task it has handled, and at the return of process_batch the
\* number of records, processed_count and the number of input URLs agree.
C6_OneRecordPerTask ==
    /\ pc = "loop" =>
           /\ Len(job_state.results) = Cardinality(yielded)
           /\ job_state.processed_count = Cardinality(yielded)
    /\ (pc = "done" /\ caller = "batch") =>
           /\ Len(ret.results) = ret.processed_count
           /\ ret.processed_count = Len(ret.urls)

\* C7: a failing save_job_state never makes process_batch raise, and the
\* job state the loop body leaves is the same whether the checkpoint
\* succeeds or fails.
C7_CheckpointFailureHarmless ==
    /\ ~ (pc = "raised" /\ caller = "batch")
    /\ pc = "loop" =>
           \A i \in DOMAIN futures, out \in SaveOutcomes :
               (futures[i].done /\ i \notin yielded) =>
                   loop_body(job_state, store, interval, job_state.urls[i],
                             futures[i], out).js
                     = loop_body(job_state, store, interval,
                                 job_state.urls[i], futures[i], "ok").js

\* C8: for every task whose exception the completion loop has caught, the
\* job state holds a failure Result Record of that URL with the type name of
\* the exception as error_type, and the URL is in failed_urls.
C8_RunnerLevelFailureRecord ==
    pc = "loop" =>
        \A i \in yielded :
            futures[i].raised =>
                /\ job_state.urls[i] \in job_state.failed_urls
                /\ \E n \in DOMAIN job_state.results :
                       /\ job_state.results[n].url = job_state.urls[i]
                       /\ ~ job_state.results[n].success
                       /\ job_state.results[n].error_type
                              = Some(futures[i].exc)

\* C10: resume_batch_job on a state with remaining URLs runs process_batch
\* on exactly the URLs that are neither completed nor failed, and returns
\* the loaded state with the new records appended, the new sets united in,
\* processed_count equal to the number of records and no remaining URL; the
\* file of the job id then holds the returned state.
C10_ResumeProcessesRemaining ==
    /\ [] ((caller = "resume" /\ pc \in { "loop", "merge" }) =>
              /\ Range(job_state.urls)
                     = Range(loaded[1].urls)
                         \ (loaded[1].completed_urls
                              \cup loaded[1].failed_urls)
              /\ DOMAIN futures = DOMAIN job_state.urls
              /\ job_state.urls # << >>)
    /\ [][ (pc = "merge" /\ pc' = "done") =>
              /\ ret'.results = loaded[1].results \o job_state.results
              /\ ret'.completed_urls
                     = loaded[1].completed_urls \cup job_state.completed_urls
              /\ ret'.failed_urls
                     = loaded[1].failed_urls \cup job_state.failed_urls
              /\ ret'.processed_count = Len(ret'.results)
              /\ ret'.urls = loaded[1].urls
              /\ remaining_urls(ret') = << >>
              /\ load_job_state(store', JobId) = Some(ret') ]_vars

\* C10 witness: a resume that had URLs left has returned, and the state it
\* loaded already held a failed URL
C10_Witness ==
    /\ pc = "done"
    /\ caller = "resume"
    /\ ~ IsNone(loaded)
    /\ remaining_urls(loaded[1]) # << >>
    /\ loaded[1].failed_urls # {}
    /\ load_job_state(store, JobId) = Some(ret)

\* a call of resume_batch_job is made in this step
ResumeCalled ==
    /\ pc \in { "idle", "done", "raised", "rejected" }
    /\ calls' = calls + 1
    /\ caller' = "resume"

\* the file of the job holds a state whose URLs are all completed or failed
PersistedFinished ==
    /\ ~ IsNone(load_job_state(store, JobId))
    /\ Range(load_job_state(store, JobId)[1].urls)
           \subseteq load_job_state(store, JobId)[1].completed_urls
                        \cup load_job_state(store, JobId)[1].failed_urls

\* C11: resume_batch_job on a job whose persisted state has no remaining URL
\* returns at once the state that is persisted, submits no task and leaves
\* the state directory as it is; called again after a resume has returned,
\* it returns the same state as that resume.
C11_ResumeOfFinishedJobIsNoOp ==
    [][ (ResumeCalled /\ PersistedFinished)
            => /\ pc' = "done"
               /\ ret' = load_job_state(store, JobId)[1]
               /\ futures' = << >>
               /\ store' = store
               /\ (pc = "done" /\ caller = "resume") => ret' = ret ]_vars

\* C11 witness: after process_batch, a second resume in a row has returned
\* the persisted state of a job with a failed URL
C11_Witness ==
    /\ pc = "done"
    /\ caller = "resume"
    /\ calls = 3
    /\ loaded = Some(ret)
    /\ load_job_state(store, JobId) = Some(ret)
    /\ store[ResumeId].kind = "none"
    /\ ret.urls # << >>
    /\ ret.failed_urls # {}

\* the attributes of a job state that a save and a load must keep
SameProgress(js1, js2) ==
    /\ js1.completed_urls = js2.completed_urls
    /\ js1.failed_urls = js2.failed_urls
    /\ Len(js1.results) = Len(js2.results)
    /\ js1.processed_count = js2.processed_count

\* C13: whatever the state directory holds, a successful save_job_state of
\* a job state followed by load_job_state of its job id gives a state with
\* the same completed_urls, failed_urls, number of results and
\* processed_count, so that a later save replaces an earlier snapshot; and
\* when a call has returned, the file of the job holds the returned state.
C13_SaveLoadRoundTrip ==
    /\ \A js \in { s \in Snapshots \cup { job_state, ret } :
                       s.job_id \in JobIds } :
           LET got == load_job_state(save_job_state(store, js, "ok"),
                                     js.job_id)
           IN  /\ ~ IsNone(got)
               /\ SameProgress(got[1], js)
    /\ pc = "done" =>
           /\ ~ IsNone(load_job_state(store, JobId))
           /\ SameProgress(load_job_state(store, JobId)[1], ret)

\* C13 witness: process_batch has returned a state with a completed and a
\* failed URL, written over the snapshot of its first checkpoint
C13_Witness ==
    /\ pc = "done"
    /\ caller = "batch"
    /\ ret.completed_urls # {}
    /\ ret.failed_urls # {}
    /\ Len(ret.results) = 2
    /\ load_job_state(store, JobId) = Some(ret)

\* C14: when the process is interrupted inside process_batch or
\* resume_batch_job, also in the middle of a save_job_state that overwrites
\* a snapshot, load_job_state of each job id afterwards returns either None
\* or the very state it returned before the interruption; what a truncated
\* file holds is never returned.
C14_InterruptedSaveNeverLoadsPartial ==
    [][ (pc # "idle" /\ pc' = "idle")
            => \A j \in JobIds :
                   \/ IsNone(load_job_state(store', j))
                   \/ load_job_state(store', j) = load_job_state(store, j)
      ]_vars

\* C14 witness: an interruption in the middle of a save has left a truncated
\* file where the job had a snapshot, and load_job_state returns None
C14_Witness ==
    /\ pc = "idle"
    /\ calls = 2
    /\ store[JobId].kind = "corrupt"
    /\ IsNone(load_job_state(store, JobId))

\* C25: load_job_state of a job id that has no file in the state directory
\* returns None; a call of resume_batch_job that loads such an id gets None
\* from it (and raises its own error for the missing job) and the state
\* directory is as it was before.
C25_LoadOfMissingJobIsNone ==
    /\ [](\A j \in DOMAIN store :
             store[j].kind = "none" => IsNone(load_job_state(store, j)))
    /\ [][ (ResumeCalled /\ store[JobId].kind = "none")
              => loaded' = None /\ pc' = "raised" /\ store' = store ]_vars

\* C25 witness: resume_batch_job was called when the directory held no
\* file of the job, the load gave None and the job still has no file
C25_Witness ==
    /\ pc = "raised"
    /\ caller = "resume"
    /\ loaded = None
    /\ \A j \in JobIds : store[j].kind = "none"

\* C16: inside the completion loop, when no save has failed and the number
\* of handled tasks is a multiple of the interval, whether the last task
\* returned a record or raised, the file of the job holds the job state as
\* it is; and when process_batch has returned, the file holds the state it
\* returned.
C16_CheckpointEveryKthTask ==
    /\ (/\ pc = "loop"
        /\ yielded # {}
        /\ job_state.processed_count = Cardinality(yielded)
        /\ job_state.processed_count % interval = 0)
           => load_job_state(store, job_state.job_id) = Some(job_state)
    /\ (pc = "done" /\ caller = "batch")
           => load_job_state(store, JobId) = Some(ret)

\* C17: in every job state, in memory, persisted or returned,
\* completion_percentage is between 0 and 100, and it is 0 when total_urls
\* is 0.
C17_CompletionPercentageInRange ==
    \A js \in Snapshots \cup { job_state, ret } :
        /\ completion_percentage(js) >= 0
        /\ completion_percentage(js) <= 100
        /\ js.total_urls = 0 => completion_percentage(js) = 0

\* C22: no process_batch with max_workers <= 0 gets as far as submitting a
\* task or writing a file: a running batch and every snapshot have a
\* positive max_workers, and when process_batch has raised the ValueError
\* no future exists and the state directory is as it was, empty.
C22_BadWorkerCountRejected ==
    /\ pc \in { "loop", "merge" } => job_state.max_workers > 0
    /\ \A js \in Snapshots : js.max_workers > 0
    /\ pc = "rejected" =>
           /\ futures = << >>
           /\ yielded = {}
           /\ \A j \in JobIds : store[j] = NoFile

\* C22 witness: process_batch has raised the ValueError
C22_Witness ==
    /\ pc = "rejected"
    /\ caller = "batch"
    /\ calls = 1

\* process_batch is inside its call on an empty list of URLs
EmptyBatch ==
    /\ pc = "loop"
    /\ caller = "batch"
    /\ job_state.urls = << >>

C12_ResumeAfterInterruption ==
    /\ (/\ pc = "loop"
        /\ caller = "batch"
        /\ Cardinality(yielded) \in 1..(Len(job_state.urls) - 1)
        /\ load_job_state(store, JobId) = Some(job_state))
           => load_job_state(store, JobId)[1].processed_count
                  = Cardinality(yielded)
    /\ (/\ caller = "resume"
        /\ pc \in { "loop", "merge", "done" }
        /\ ~ IsNone(loaded)
        /\ loaded[1].processed_count \in 1..(Len(loaded[1].urls) - 1))
           => /\ pc \in { "loop", "merge" } =>
                  Len(job_state.urls)
                      = Len(loaded[1].urls) - loaded[1].processed_count
              /\ pc = "done" => ret.processed_count = Len(ret.urls)

\* C18: processed_count of a job never decreases: not in the file of the
\* job from one snapshot to the next, not in the job state of a running
\* process_batch, and not from the state resume_batch_job has loaded to the
\* state it returns.
C18_ProcessedCountNeverDecreases ==
    [][ /\ (~ IsNone(load_job_state(store, JobId))
             /\ ~ IsNone(load_job_state(store', JobId)))
            => load_job_state(store', JobId)[1].processed_count
                   >= load_job_state(store, JobId)[1].processed_count
        /\ (pc = "loop" /\ pc' = "loop")
            => job_state'.processed_count >= job_state.processed_count
        /\ (pc = "merge" /\ pc' = "done")
            => ret'.processed_count >= loaded[1].processed_count ]_vars

(***************************************************************************)
(* Properties of the rate limiters, checked under SpecWorkers.             *)
(***************************************************************************)
InLimiter(d) ==
    { w \in Workers : w_domain[w] = d /\ w_pc[w] \in { "rl_sleep", "rl_write" } }

\* C3: two times that _apply_domain_rate_limit stores one after the other
\* for a domain are at least the delay apart, and at most one worker is
\* between the read and the write of a domain's time.
C3_LimiterSpacingAndExclusion ==
    \A d \in Domains :
        /\ Cardinality(InLimiter(d)) <= 1
        /\ \A w \in Workers :
               (w_domain[w] = d /\ ~ IsNone(rl_gap[d]))
                   => rl_gap[d][1] >= or_default(w_delay[w])

\* C3 witness: a second worker of a domain has waited out the delay and
\* stored its time
C3_Witness ==
    \E d \in Domains, w \in Workers :
        /\ w_domain[w] = d
        /\ rl_gap[d] = Some(or_default(w_delay[w]))
        /\ or_default(w_delay[w]) > 1
        /\ \A v \in Workers : w_pc[v] = "done"

\* C4: two requests that are sent one after the other to a domain leave at
\* least the effective delay apart.
C4_RequestSpacing ==
    \A d \in Domains, w \in Workers :
        (w_domain[w] = d /\ ~ IsNone(send_gap[d]))
            => send_gap[d][1] >= if_not_none(w_delay[w])

(***************************************************************************)
(* Properties of one task, checked under SpecTask.                         *)
(***************************************************************************)
TaskRaisedAt ==
    RaisedAt(task_in.analyze_robots, task_in.custom_delay, task_in.env)

\* C9: when get_crawl_delay, the rate limiter, get or can_fetch raises
\* inside the task, the task raises nothing and returns a record with
\* success false, the type name of the exception as error_type, and an
\* error_message.
C9_TaskCatchesExceptions ==
    (task_pc = "returned" /\ task_in.env.ctor = "ok"
         /\ TaskRaisedAt # "none")
        => /\ ~ task_out.raised
           /\ ~ task_out.result.success
           /\ task_out.result.error_type = Some(task_in.env.exc)
           /\ ~ IsNone(task_out.result.error_message)
           /\ task_out.result.url = task_in.url

Max(a, b) == IF a >= b THEN a ELSE b

\* the crawl delay robots.txt declares for the URL, 0 when it declares none
DeclaredCrawlDelay ==
    IF IsNone(crawl_delay_value(task_in.env)) THEN 0
    ELSE crawl_delay_value(task_in.env)[1]

\* C15: in a task that reaches the rate limiter, the delay the limiter works
\* with is the larger of the configured delay (custom_delay, else the
\* scraper's default) and the crawl delay of robots.txt when analyze_robots
\* is enabled, and the configured delay when it is disabled.
C15_LimiterDelayIsMax ==
    (task_pc = "returned" /\ task_in.env.ctor = "ok"
         /\ task_in.env.crawl # "exc")
        => limiter_delay(task_in.analyze_robots, task_in.custom_delay,
                         task_in.env)
             = IF task_in.analyze_robots
               THEN Max(or_default(task_in.custom_delay), DeclaredCrawlDelay)
               ELSE or_default(task_in.custom_delay)

SuccessRecord(r) ==
    /\ r.success
    /\ ~ IsNone(r.status_code)
    /\ ~ IsNone(r.response_size)
    /\ IsNone(r.error_type)
    /\ IsNone(r.error_message)

FailureRecord(r) ==
    /\ ~ r.success
    /\ ~ IsNone(r.error_type)
    /\ IsNone(r.status_code)
    /\ IsNone(r.response_size)
    /\ IsNone(r.response_time)

\* C19: the record a task returns is either a success record (success,
\* status_code and response_size set, no error_type, no error_message) or a
\* failure record (no success, error_type set, no status_code, no
\* response_size, no response_time), and not both.
C19_RecordIsSuccessOrFailure ==
    (task_pc = "returned" /\ ~ task_out.raised)
        => SuccessRecord(task_out.result) # FailureRecord(task_out.result)

(***************************************************************************)
(* Properties of one task on a site, checked under SpecPolicy.             *)
(***************************************************************************)
\* the robots check of get has denied the URL
GetDenied ==
    ~ get_check(task_in.site, task_in.analyze_robots,
                task_in.custom_delay).allowed

BeforeEnrichment ==
    task_outcome(task_timed(task_lookup(BatchResult(task_in.url),
                                        task_in.analyze_robots,
                                        task_in.custom_delay, task_in.env)),
                 task_in.env)

\* C21: when the task reaches the enrichment step and analyze_url raises or
\* returns nothing, the task returns a record whose success, status_code,
\* error_type and error_message are those it had before the step, and
\* whose robots_analysis is absent.
C21_EnrichmentFailureHarmless ==
    (task_pc = "returned" /\ task_in.analyze_robots
         /\ task_in.env.ctor = "ok" /\ TaskRaisedAt = "none"
         /\ task_in.env.analyze \in { "exc", "none" })
        => /\ ~ task_out.raised
           /\ task_out.result.success = BeforeEnrichment.success
           /\ task_out.result.status_code = BeforeEnrichment.status_code
           /\ task_out.result.error_type = BeforeEnrichment.error_type
           /\ task_out.result.error_message = BeforeEnrichment.error_message
           /\ IsNone(task_out.result.robots_analysis)

\* C21 witness: analyze_url raised after a successful fetch and the task
\* returned the success record
C21_Witness ==
    /\ task_pc = "returned"
    /\ task_in.analyze_robots
    /\ task_in.env.analyze = "exc"
    /\ task_out.result.success
    /\ IsNone(task_out.result.error_type)
    /\ IsNone(task_out.result.robots_analysis)

\* C9 witness: can_fetch raised after get returned None, and the task
\* returned the failure record
C9_Witness ==
    /\ task_pc = "returned"
    /\ TaskRaisedAt = "can_fetch"
    /\ ~ task_out.raised
    /\ task_out.result.error_type = Some("ConnectionError")

(***************************************************************************)
(* Properties of the state directory, checked under SpecStore.             *)
(***************************************************************************)
\* C24: a call of process_batch that passes no job_id gets an id no earlier
\* call got, so it never finds a snapshot under its id that it would write
\* over, even when both calls start within the same second of the clock.
C24_DefaultJobIdsDistinct ==
    [][ calls' = calls + 1 => store[default_job_id(clock)].kind = "none" ]_vars

\* the ids whose file a step removes
Deleted == { j \in DirIds : store[j].kind # "none" /\ store'[j].kind = "none" }

\* C26: a call of cleanup_old_states returns the number of files it
\* deleted, deletes no file that is younger than every max_age it may have
\* been given, and never deletes the snapshot of the Job State the caller
\* still holds in memory from the last process_batch that returned.
C26_CleanupSparesStatesInUse ==
    [][ (pc' = "cleaned" /\ clock' = clock)
            => /\ cleaned' = Cardinality(Deleted)
               /\ \A j \in Deleted : mtimes[j] < clock
               /\ ret.job_id # "" => ret.job_id \notin Deleted ]_vars

Reportable ==
    (IF pc = "loop" THEN { job_state } ELSE {})
        \cup (IF pc = "done" THEN { ret } ELSE {})

\* C28: the report of every such Job State has the statistics: 'successful'
\* plus 'failed' is the number of results, the success rate is
\* 100 * successful / results, and each ratio whose denominator is zero (no
\* result, no successful result, no result with a crawl delay) is 0.
C28_ReportRatiosGuarded ==
    \A js \in Reportable :
        LET rep == generate_summary_report(js)
            n == Len(js.results)
            ok == Len(SelectSeq(js.results, LAMBDA r : r.success))
        IN  /\ IsNone(rep.message)
            /\ rep.successful[1] + rep.failed[1] = n
            /\ rep.success_rate_percent[1]
                   = (IF n = 0 THEN 0 ELSE (100 * ok) \div n)
            /\ ok = 0 => /\ rep.average_seconds[1] = 0
                         /\ rep.average_bytes_per_response[1] = 0
            /\ ~ IsNone(rep.crawl_delays)
                   => /\ ~ IsNone(rep.crawl_delays[1].average)
                      /\ rep.crawl_delays[1].count = 0
                             => rep.crawl_delays[1].average[1] = 0

WaitsRemaining(w, last, delay, asleep, awake) ==
    IF IsNone(last) \/ clock - last[1] >= delay
    THEN w_pc'[w] = awake
    ELSE w_pc'[w] = asleep /\ w_wake'[w] = clock + (delay - (clock - last[1]))

\* C30: in _apply_domain_rate_limit and in ScraperEtico._apply_rate_limit a
\* call that finds no time recorded for its domain does not sleep, and a
\* call that finds one before the delay has elapsed sleeps for the delay
\* minus the elapsed time.
C30_FirstCallNeverWaits ==
    [][ \A w \in Workers :
            /\ (w_pc[w] = "start" /\ w_pc'[w] # "start")
                   => WaitsRemaining(w, domain_last_request[w_domain[w]],
                                     or_default(w_delay[w]),
                                     "rl_sleep", "rl_write")
            /\ (w_pc[w] = "get" /\ w_pc'[w] \notin { "get", "done" })
                   => WaitsRemaining(w, last_request_time[w_domain[w]],
                                     if_not_none(w_delay[w]),
                                     "s_sleep", "s_send")
      ]_vars

\* C30 witness: one worker sleeps in the batch limiter for less than the
\* whole delay, because time has passed since the first call for its domain
C30_Witness ==
    \E w \in Workers :
        LET last == domain_last_request[w_domain[w]]
        IN  /\ w_pc[w] = "rl_sleep"
            /\ ~ IsNone(last)
            /\ w_wake[w] = last[1] + or_default(w_delay[w])
            /\ w_wake[w] - clock < or_default(w_delay[w])
            /\ w_wake[w] > clock

\* C31: a get whose robots check denies the URL ends without the step that
\* sends the request: the worker is done at once, the last request time of
\* the domain is as before and no request is added to the requests sent to
\* the domain.
C31_DeniedGetSendsNothing ==
    [][ \A w \in Workers :
            (w_pc[w] = "get" /\ w_pc'[w] = "done")
                => /\ last_request_time[w_domain[w]]'
                          = last_request_time[w_domain[w]]
                   /\ send_gap' = send_gap
      ]_vars

\* C31 witness: two workers of one domain are done, one has sent its request
\* and the other was denied: one time is stored and no second request was
\* sent to the domain
C31_Witness ==
    \E w, v \in Workers :
        /\ w # v
        /\ w_domain[w] = w_domain[v]
        /\ w_pc[w] = "done"
        /\ w_pc[v] = "done"
        /\ ~ IsNone(last_request_time[w_domain[w]])
        /\ IsNone(send_gap[w_domain[w]])

(***************************************************************************)
(* Properties of the robots cache, checked under SpecCache.                *)
(***************************************************************************)
\* C32: a call of can_fetch downloads robots.txt only when it is the first
\* call for its domain since the cache was last emptied or when it is made
\* with force_refresh; every other call is served from the cache.
C32_RobotsFetchedOnce ==
    [][ \A d \in Domains :
            robots_fetches'[d] > robots_fetches[d]
                => d \notin checked \/ cf_last'.force_refresh ]_vars

(***************************************************************************)
(* Properties of the locks, checked under SpecLocks.                       *)
(***************************************************************************)
\* C33: self._lock is held only by a worker inside _get_domain_lock, which
\* neither sleeps nor waits for a lock of a domain there; and a worker that
\* waits for the lock of its domain can take it whenever no worker of the
\* same domain is in the limiter, whatever the workers of other domains do.
C33_DomainsDoNotBlockEachOther ==
    \A w \in Workers :
        /\ global_lock = Some(w) => w_pc[w] = "map"
        /\ (w_pc[w] = "wait" /\ InLimiter(w_domain[w]) = {})
               => domain_lock_available(w_domain[w])

\* C33 witness: a worker of one domain is in the limiter, holding the lock
\* of its domain, and in that state a worker of another domain has taken
\* the lock of its own domain
C33_Witness ==
    \E w, v \in Workers :
        /\ w_domain[w] # w_domain[v]
        /\ w_pc[w] \in { "rl_sleep", "rl_write" }
        /\ w_pc[v] \in { "rl_sleep", "rl_write" }
        /\ IsNone(global_lock)

\* the worker is between the entry into _apply_domain_rate_limit and its
\* return
InRateLimiter(w) == w_pc[w] \in { "map", "wait", "rl_sleep", "rl_write" }

\* C34: the lock of a domain is held only while a worker of the domain is
\* between the read and the write of the limiter, never during the fetch;
\* the worker that holds self._lock holds no lock of a domain; every worker
\* that has entered the rate limiter leaves it, and in the end every worker
\* is done.
C34_NoDeadlock ==
    /\ [](\A d \in Domains :
              InLimiter(d) = {} => domain_locks[d] # "held")
    /\ [](\A w \in Workers :
              global_lock = Some(w) => w \notin InLimiter(w_domain[w]))
    /\ \A w \in Workers : InRateLimiter(w) ~> ~ InRateLimiter(w)
    /\ <>(\A w \in Workers : w_pc[w] = "done")

\* C34 witness: two workers of one domain have both sent their requests,
\* the second after it had queued behind the first in the limiter, and all
\* workers are done with every lock free
C34_Witness ==
    /\ \A w \in Workers : w_pc[w] = "done"
    /\ \E d \in Domains : ~ IsNone(rl_gap[d]) /\ ~ IsNone(send_gap[d])
    /\ \A d \in Domains : domain_locks[d] # "held"
    /\ IsNone(global_lock)

(***************************************************************************)
(* More properties of the batch runner, checked under Spec.                *)
(***************************************************************************)
\* C35: while process_batch is in its completion loop, a step in which a
\* worker thread finishes its task changes neither the job state nor the
\* state directory; the job state changes only in a step of the loop, which
\* handles one whole future; and a snapshot written in the loop is the job
\* state as that step leaves it.
C35_JobStateHasOneWriter ==
    [][ (pc = "loop" /\ pc' = "loop")
            => /\ futures' # futures
                      => job_state' = job_state /\ store' = store
               /\ job_state' # job_state
                      => /\ futures' = futures
                         /\ \E i \in DOMAIN futures :
                                /\ i \notin yielded
                                /\ yielded' = yielded \cup { i }
               /\ (store' # store
                       /\ store'[job_state.job_id].kind = "state")
                      => store'[job_state.job_id] = File(job_state')
      ]_vars

\* C35 witness: a worker has finished its task while the loop has already
\* handled another future and written a snapshot; the finished task is not
\* in the job state yet
C35_Witness ==
    /\ pc = "loop"
    /\ job_state.processed_count = 1
    /\ Len(job_state.results) = 1
    /\ \E i \in DOMAIN futures : futures[i].done /\ i \notin yielded
    /\ store[job_state.job_id] = File(job_state)

\* s is the beginning of t
IsPrefix(s, t) == Len(s) <= Len(t) /\ SubSeq(t, 1, Len(s)) = s

\* C36: inside process_batch the URL list of the job state is the list the
\* futures were submitted for, in its order, and total_urls is its length;
\* no step of the loop changes either; a returned state has the list it was
\* created with; and the state resume_batch_job returns has the URL list and
\* total_urls of the loaded state and the loaded records as the beginning
\* of its results.
C36_UrlsFixedAndRecordsKept ==
    /\ [](pc \in { "loop", "merge" }
              => /\ DOMAIN job_state.urls = DOMAIN futures
                 /\ \A i \in DOMAIN futures :
                        futures[i].result.url = job_state.urls[i]
                 /\ job_state.total_urls = Len(job_state.urls))
    /\ [][ /\ (pc = "loop" /\ pc' \in { "loop", "merge" })
                  => /\ job_state'.urls = job_state.urls
                     /\ job_state'.total_urls = job_state.total_urls
           /\ (pc = "loop" /\ pc' = "done")
                  => /\ ret'.urls = job_state.urls
                     /\ ret'.total_urls = job_state.total_urls
           /\ (pc = "merge" /\ pc' = "done")
                  => /\ ret'.urls = loaded[1].urls
                     /\ ret'.total_urls = loaded[1].total_urls
                     /\ IsPrefix(loaded[1].results, ret'.results)
      ]_vars

\* C36 witness: a resumed job has returned a state that holds a record from
\* before the interruption followed by a record of the resumed run
C36_Witness ==
    /\ pc = "done"
    /\ caller = "resume"
    /\ ~ IsNone(loaded)
    /\ loaded[1].results # << >>
    /\ Len(ret.results) > Len(loaded[1].results)
    /\ ret.urls = loaded[1].urls

\* the answers of a task whose calls all return, for each thing robots.txt
\* can declare as crawl delay and each way get_crawl_delay can end
CrawlEnvs ==
    { e \in Envs :
        /\ e.limiter = "ok" /\ e.get = "response" /\ e.can = "true"
        /\ e.analyze = "report" /\ e.ctor = "ok" /\ e.exc = "ValueError" }

C38_DisallowedMeansNoRequest ==
    (task_pc = "returned" /\ ~ task_out.raised)
        => /\ task_out.result.error_type = Some("robots_disallowed")
                  => GetDenied
           /\ task_in.env.get = "none"
                  => (task_in.env.can = "false") = GetDenied

(***************************************************************************)
(* The files a resume writes, checked under Spec.                          *)
(***************************************************************************)
\* C39: when the run of the remaining URLs has ended, its final save puts
\* its state in the file of the derived id; when resume_batch_job returns,
\* the file of job_id holds the merged state it returns, the file of the
\* derived id is still there, both ids are among the ids that have a file,
\* and no step of a resume changes the file of any other id.
C39_ResumePersistsBothIds ==
    /\ [][ (caller = "resume" /\ pc = "loop" /\ pc' = "merge")
              => store'[ResumeId] = File(job_state) ]_vars
    /\ [][ (pc = "merge" /\ pc' = "done")
              => /\ store'[JobId] = File(ret')
                 /\ store'[ResumeId] = store[ResumeId]
                 /\ store'[ResumeId].kind = "state"
                 /\ pickle_load(store'[ResumeId].state).urls
                        = remaining_urls(loaded[1])
                 /\ { JobId, ResumeId } \subseteq state_files(store') ]_vars
    /\ [][ (caller' = "resume")
              => \A j \in DOMAIN store \ { JobId, ResumeId } :
                     store'[j] = store[j] ]_vars

\* C39 witness: a resume of a job with remaining URLs has returned, the
\* directory holds the merged state, the state of the resumed run and the
\* file of the other job
C39_Witness ==
    /\ pc = "done"
    /\ caller = "resume"
    /\ store[JobId] = File(ret)
    /\ store[ResumeId].kind = "state"
    /\ pickle_load(store[ResumeId].state).results # << >>
    /\ store[OtherId] = OtherFile
    /\ state_files(store) = { JobId, ResumeId, OtherId }
\* C40: resume_batch_job called when the file of the job is missing, or is
\* there and cannot be unpickled, raises; no task is submitted, no job state
\* is made and every file of the state directory is as it was.
C40_ResumeWithoutCheckpointRaises ==
    [][ (ResumeCalled /\ store[JobId].kind \in { "none", "corrupt" })
            => /\ pc' = "raised"
               /\ futures' = << >>
               /\ yielded' = {}
               /\ job_state' = NoState
               /\ \A j \in DOMAIN store : store'[j] = store[j] ]_vars

\* C40 witness: resume_batch_job has raised on a job whose file cannot be
\* unpickled, and the file is still the one that cannot be unpickled
C40_Witness ==
    /\ pc = "raised"
    /\ caller = "resume"
    /\ loaded = None
    /\ store[JobId].kind = "corrupt"
    /\ futures = << >>
====
